---- MODULE Spec2Model ----
(***************************************************************************)
(* rx-entity: the event-to-entity pipeline.                                *)
(*                                                                         *)
(* entityEventHandler  one checkout -> transition -> coordination ->       *)
(*                     persist cycle, an async function with suspension    *)
(*                     points at the store get, the side handler and the   *)
(*                     store put/remove.                                   *)
(* entityServiceFactory  pipe(withLatestFrom(persistence$), concatMap(..), *)
(*                     share()) applied to a source of events.             *)
(* filterPreviouslySeenIds  filter() over a Map of the ids seen.           *)
(* subscriptionFactory  subscribe each stream through takeUntil.           *)
(*                                                                         *)
(* Spec          one subscription of one service                           *)
(* SpecShare     one application whose listeners come and go               *)
(* SpecTeardown  two applications of one service, torn down together       *)
(* SpecFilter    one subscription of one filter                            *)
(*                                                                         *)
(* The repository holds two variants of the package: src/package/index.ts  *)
(* (creation sentinel 'new', no side handlers) and src/unnamed/part_001    *)
(* (creation sentinel 'add', side handlers).  The variable variant selects *)
(* the one a behaviour runs.                                               *)
(***************************************************************************)
EXTENDS Integers, Sequences, FiniteSets, TLC

\* Number of events one source emits.
MaxEvents == 3
\* Number of events that may wait in concatMap's buffer.
MaxBuffer == 2
\* Number of events the sources emit in all where listeners come and go.
MaxShared == 2
\* Number of values fed to a filterPreviouslySeenIds transform.
MaxLen == 4

\* The 'stock: 2' of the item the tests' side handler checks against.
Stock == 2

Variants == {"package", "unnamed"}
\* A pipeline is one application of a service to a source of events.
Pipes == {"p1", "p2"}
MainPipes == {"p1"}
\* The subscribers of a service's output; the subscriber subscriptionFactory
\* creates for a stream is FactoryListener.
Listeners == {"l1", "l2"}
FactoryListener == "sf"
AllListeners == Listeners \cup {FactoryListener}
Handles == {"h1", "h2"}
NoHandle == "none"
Ids == {"x", "y"}
NoId == ""
\* The tests add a quantity within the stock (1) and one above it (10).
Amounts == {1, 3}
\* memoryCalcTable, the collection the service persists to.
Collection == "line"
\* calcEntity, the entity name in the events' meta.
EntityName == "calc"

\* Event types.  'add', 'removeItem' are the tests' handlers; 'new' spreads
\* the event over the entity like the tests' changePrice; 'rekey' answers an
\* entity under another id; 'strip' forgets the id; 'drop' answers a bare
\* { deleted: true }; 'boom' throws; 'ghost' and 'constructor' have no entry
\* in the handler table.
Types ==
  {"add", "new", "removeItem", "rekey", "strip", "drop", "boom", "ghost",
   "constructor"}
\* The keys of the eventHandlers object.
HandlerTypes == Types \ {"ghost", "constructor"}
\* The keys an object literal inherits from Object.prototype whose value is
\* a function that answers its first argument.
InheritedTypes == {"constructor"}

NoMeta == [entity |-> "", eventType |-> ""]

Events ==
  { [id |-> i, amount |-> a, meta |-> [entity |-> EntityName, eventType |-> t]] :
      i \in Ids, a \in Amounts, t \in Types }

\* Events as the source produces them: only 'add' events differ in amount.
SourceEvents ==
  { e \in Events : e.meta.eventType # "add" => e.amount = 1 }

\* {...undefined}: the fields of an absent entity.
Blank == [id |-> NoId, amount |-> 0, deleted |-> FALSE, meta |-> NoMeta]

Other(i) == IF i = "x" THEN "y" ELSE "x"

\* One sentinel for both variants.
SentinelAdd(v) == "add"

\* The string compared in the catch of entityEventHandler.
Sentinel(v) == IF v = "package" THEN "new" ELSE "add"

\* eventHandlers[eventType] is a function: the property lookup goes through
\* the prototype of the table.
HasHandler(t) == t \in HandlerTypes \cup InheritedTypes

HandlerThrows(t) == t = "boom"

\* eventHandlers[eventType](currentEntity, event); entity is <<>> (undefined)
\* or <<the entity>>.
Handler(t, entity, ev) ==
  LET base == IF entity = <<>> THEN Blank ELSE entity[1] IN
  CASE t = "add" ->
         [base EXCEPT !.id = ev.id, !.amount = base.amount + ev.amount]
    [] t = "new" ->
         [base EXCEPT !.id = ev.id, !.amount = ev.amount, !.meta = ev.meta]
    [] t = "removeItem" -> [base EXCEPT !.deleted = TRUE]
    [] t = "rekey" -> [base EXCEPT !.id = Other(ev.id)]
    [] t = "drop" -> [Blank EXCEPT !.deleted = TRUE]
    [] t = "constructor" -> base   \* Object(currentEntity, event)
    [] OTHER -> [base EXCEPT !.id = NoId]

\* sideHandlers && sideHandlers[eventType]: the table has the tests' 'add'
\* handler and a 'drop' handler that vetoes the deletion, and inherits Object
\* under 'constructor'.
HasSide(v, t) == v = "unnamed" /\ t \in {"add", "drop"} \cup InheritedTypes

\* The tests' cartAggregateHandlers: throw 'Invalid stock' above the stock.
SideRejects(upd) == upd.amount > Stock

\* What sideHandlers[eventType](currentEntity, event, updatedEntity) resolves
\* with: the tests' 'add' handler answers its third argument; the 'drop'
\* handler and Object answer the first, the entity as fetched.
SideResult(t, entity, ev, upd) ==
  IF t = "add" THEN upd
  ELSE IF entity = <<>> THEN Blank ELSE entity[1]

VARIABLES
  variant,   \* which variant of the package runs
  store,     \* store[h][id]: <<>> when no record, else <<entity>>
  handle,    \* the last store handle persistence$ emitted (replayed), or none
  sub,       \* sub[p]: "idle", "active", "errored", "completed"
  latest,    \* withLatestFrom: the latest handle seen by the pipeline
  sent,      \* number of events the source of p has emitted
  srcDone,   \* the source of p has completed
  buffer,    \* concatMap: the [event, handle] pairs waiting
  inflight,  \* the cycles (entityEventHandler calls) not yet settled
  last,      \* last[p]: the cycle of p that settled last
  started,   \* number of entityEventHandler invocations of p
  out,       \* the numbers of the events whose entity was emitted, in order
  lastOut,   \* the last value emitted on the output, <<>> when none
  err,       \* the error delivered on the output, "" when none
  folded,    \* the left fold of the 'add' handler over the accepted events
  plain,     \* the run is like the tests': every accepted event was an 'add'
             \* event and no store call failed other than by not-found
  listeners, \* share(): listeners[p], the subscribers of the output of p
  recv,      \* recv[p][l]: the numbers of the events whose entity l received
  factory,   \* subscriptionFactory: "none" before the call, "attached"
             \* after it, "destroyed" once destruction$ has emitted
  map,       \* filterPreviouslySeenIds: the ids in the transform's Map
  fin,       \* the values fed to the filter, in order
  fout,      \* the values the filter let through, in order
  fsub,      \* the subscription of that stream: "on", or how it ended
  fmark,     \* how many values had been fed when it was last subscribed
  fin2,      \* the values a second stream fed to the same transform
  fout2,     \* the values the transform let through on the second stream
  mapB,      \* the Map of a second transform, made by a call of its own
  finB,      \* the values fed to the second transform
  foutB      \* the values the second transform let through

\* The state of a filterPreviouslySeenIds transform and its streams.
filterVars == <<map, fin, fout, fsub, fmark, fin2, fout2, mapB, finB, foutB>>

\* The state of the services, their stores and their listeners.
serviceVars ==
  << variant, store, handle, sub, latest, sent, srcDone, buffer, inflight,
     last, started, out, lastOut, err, folded, plain, listeners, recv,
     factory >>

vars ==
  << variant, store, handle, sub, latest, sent, srcDone, buffer, inflight,
     last, started, out, lastOut, err, folded, plain, listeners, recv,
     factory, filterVars >>

EmptyStore == [h \in Handles |-> [i \in Ids |-> <<>>]]

\* The persistence store the pipeline consumes.  get answers the record of
\* the id in the collection and fails with not-found when there is none
\* (<<>> here); put and remove are atomic single-record writes.
StoreGet(st, h, id) == st[h][id]

StorePut(st, h, id, entity) == [st EXCEPT ![h][id] = <<entity>>]

StoreRemove(st, h, id) == [st EXCEPT ![h][id] = <<>>]

\* A call of entityEventHandler: the event, the store handle it was paired
\* with, and the locals of the async function.
NewCycle(p, n, ev, h, st, prev) ==
  [ p |-> p, n |-> n, event |-> ev, h |-> h,
    pc |-> "get",          \* the await the function is suspended at
    got |-> "pending",     \* how the get ended: "ok", "notfound", "io"
    currentEntity |-> <<>>,  \* <<>> while undefined
    updatedEntity |-> <<>>,  \* the transition function's result
    handledEntity |-> <<>>,  \* updatedEntity, then the side handler's result
    invoked |-> 0,         \* calls of the transition function
    sided |-> 0,           \* calls of the side handler
    writes |-> 0,          \* store writes performed
    wop |-> "none",        \* the write performed: "put" or "remove"
    wkey |-> NoId,         \* the key written
    outcome |-> "running", \* "running", "done", "failed"
    live |-> TRUE,         \* the inner subscription to the promise is open
    lh |-> h,              \* the latest handle when the cycle started
    err |-> "",
    pre |-> st,            \* the store when the cycle started
    prev |-> prev ]        \* the cycle of p that had settled last by then

\* What a later cycle remembers of a settled one: its event's number and id,
\* how it ended, the record under that id before it, the key it wrote and the
\* record it left there.
Summary(c) ==
  [ n |-> c.n, id |-> c.event.id, outcome |-> c.outcome,
    old |-> IF c.h \in Handles THEN c.pre[c.h][c.event.id] ELSE <<>>,
    wop |-> c.wop, wkey |-> c.wkey,
    rec |-> IF c.wop = "put" THEN c.handledEntity ELSE <<>> ]

NoSummary ==
  [ n |-> 0, id |-> NoId, outcome |-> "none", old |-> <<>>, wop |-> "none",
    wkey |-> NoId, rec |-> <<>> ]

NoCycle ==
  [NewCycle("p1", 0, CHOOSE e \in SourceEvents : TRUE, NoHandle, EmptyStore, NoSummary)
     EXCEPT !.outcome = "none"]

\* The pipelines are connected to their sources from the start, listeners
\* or not.
InitEager ==
  /\ variant \in Variants
  /\ store = EmptyStore
  /\ handle = NoHandle
  /\ sub = [p \in Pipes |-> "active"]
  /\ latest = [p \in Pipes |-> NoHandle]
  /\ sent = [p \in Pipes |-> 0]
  /\ srcDone = [p \in Pipes |-> FALSE]
  /\ buffer = [p \in Pipes |-> <<>>]
  /\ inflight = {}
  /\ last = [p \in Pipes |-> NoCycle]
  /\ started = [p \in Pipes |-> 0]
  /\ out = [p \in Pipes |-> <<>>]
  /\ lastOut = [p \in Pipes |-> <<>>]
  /\ err = [p \in Pipes |-> ""]
  /\ folded = [p \in Pipes |-> [i \in Ids |-> <<>>]]
  /\ plain = [p \in Pipes |-> TRUE]
  /\ listeners = [p \in Pipes |-> {}]
  /\ recv = [p \in Pipes |-> [l \in AllListeners |-> <<>>]]
  /\ factory = "none"
  /\ map = {}
  /\ fin = <<>>
  /\ fout = <<>>
  /\ fsub = "on"
  /\ fmark = 0
  /\ fin2 = <<>>
  /\ fout2 = <<>>
  /\ mapB = {}
  /\ finB = <<>>
  /\ foutB = <<>>

Init ==
  /\ variant \in Variants
  /\ store = EmptyStore
  /\ handle = NoHandle
  /\ sub = [p \in Pipes |-> "idle"]
  /\ latest = [p \in Pipes |-> NoHandle]
  /\ sent = [p \in Pipes |-> 0]
  /\ srcDone = [p \in Pipes |-> FALSE]
  /\ buffer = [p \in Pipes |-> <<>>]
  /\ inflight = {}
  /\ last = [p \in Pipes |-> NoCycle]
  /\ started = [p \in Pipes |-> 0]
  /\ out = [p \in Pipes |-> <<>>]
  /\ lastOut = [p \in Pipes |-> <<>>]
  /\ err = [p \in Pipes |-> ""]
  /\ folded = [p \in Pipes |-> [i \in Ids |-> <<>>]]
  /\ plain = [p \in Pipes |-> TRUE]
  /\ listeners = [p \in Pipes |-> {}]
  /\ recv = [p \in Pipes |-> [l \in AllListeners |-> <<>>]]
  /\ factory = "none"
  /\ map = {}
  /\ fin = <<>>
  /\ fout = <<>>
  /\ fsub = "on"
  /\ fmark = 0
  /\ fin2 = <<>>
  /\ fout2 = <<>>
  /\ mapB = {}
  /\ finB = <<>>
  /\ foutB = <<>>

\* The settled entity is returned as it is.
ReturnedAsIs(c) == c.handledEntity[1]

\* {...handledEntity, meta: {entity: entityPersistence, eventType}}
Returned(c) ==
  [c.handledEntity[1] EXCEPT
     !.meta = [entity |-> Collection, eventType |-> c.event.meta.eventType]]

\* The async function rejects with e.
Fail(c, e) == [c EXCEPT !.pc = "end", !.outcome = "failed", !.err = e]

\* The id is required before the deleted flag is looked at.
DecideIdFirst(c) ==
  LET e == c.handledEntity[1] IN
  IF e.id = NoId THEN Fail(c, "MissingId")
  ELSE IF e.deleted THEN [c EXCEPT !.pc = "remove"]
  ELSE [c EXCEPT !.pc = "put"]

\* The write without the check of the id.
DecideUnchecked(c) ==
  IF c.handledEntity[1].deleted
    THEN [c EXCEPT !.pc = "remove"]
    ELSE [c EXCEPT !.pc = "put"]

\* if (handledEntity.deleted) remove, else require an id and put.
Decide(c) ==
  LET e == c.handledEntity[1] IN
  IF e.deleted THEN [c EXCEPT !.pc = "remove"]
  ELSE IF e.id = NoId THEN Fail(c, "MissingId")
  ELSE [c EXCEPT !.pc = "put"]

\* The catch swallows every failure of the get.
GetRethrownNever(v, c) == FALSE

\* The catch around the get.
GetRethrown(v, c) == c.got # "ok" /\ c.event.meta.eventType # Sentinel(v)

\* From the settling of the get to the next await: the catch, the transition
\* function, and either the side handler's await or the write's.
AfterGet(v, c) ==
  LET t == c.event.meta.eventType IN
  IF GetRethrown(v, c)
    THEN Fail(c, IF c.got = "io" THEN "IOFailure" ELSE "NotFound")
  ELSE IF ~HasHandler(t) THEN Fail(c, "TypeError")
  ELSE IF HandlerThrows(t) THEN Fail([c EXCEPT !.invoked = @ + 1], "HandlerError")
  ELSE LET upd == <<Handler(t, c.currentEntity, c.event)>>
           c2 == [c EXCEPT !.invoked = @ + 1, !.updatedEntity = upd,
                           !.handledEntity = upd]
       IN IF HasSide(v, t) THEN [c2 EXCEPT !.pc = "side"] ELSE Decide(c2)

\* The side handler's rejection is not awaited.
AfterSideAccepts(c) == Decide(c)

\* The side handler's result is dropped: the transition result stays.
AfterSideKeeps(c) ==
  IF c.event.meta.eventType = "add" /\ SideRejects(c.updatedEntity[1])
    THEN Fail([c EXCEPT !.sided = @ + 1], "Invalid stock")
    ELSE Decide([c EXCEPT !.sided = @ + 1])

\* The side handler settles: handledEntity = await sideHandlers[eventType](..).
AfterSide(c) ==
  LET t == c.event.meta.eventType
      c2 == [c EXCEPT !.sided = @ + 1]
  IN IF t = "add" /\ SideRejects(c.updatedEntity[1])
       THEN Fail(c2, "Invalid stock")
       ELSE Decide([c2 EXCEPT !.handledEntity =
                      <<SideResult(t, c.currentEntity, c.event, c.updatedEntity[1])>>])

\* Every write is keyed by the event's id.
WriteKeyEvent(c) == c.event.id

\* The key of the write the cycle is suspended at: { id: eventId } of the
\* remove, { id: handledEntity.id } of the put.
WriteKey(c) == IF c.pc = "remove" THEN c.event.id ELSE c.handledEntity[1].id

\* The function throws after the write has taken place.
AfterWriteThrows(c) ==
  Fail([c EXCEPT !.writes = @ + 1, !.wop = c.pc, !.wkey = WriteKey(c)], "Error")

\* The write settles; the function returns.
AfterWrite(c) ==
  [c EXCEPT !.pc = "end", !.outcome = "done", !.writes = @ + 1,
            !.wop = c.pc, !.wkey = WriteKey(c)]

\* Rejections are swallowed: the inner observable just completes.
InnerErrorsNever(c2) == FALSE

\* from(promise): a rejection is the inner observable's error.
InnerErrors(c2) == c2.outcome = "failed"

\* The error notification carries a new error in place of the reason.
ErrorOfGeneric(c2) == "Error"

\* The error notification carries the rejection's reason.
ErrorOf(c2) == c2.err

\* concatMap never subscribes an inner observable.
CanStartNever(p, fl) == FALSE

\* One cycle at a time over all the services of the collection.
CanStartGlobal(p, fl) == Cardinality({c \in fl : c.live}) < 1

\* The handle is looked up when the cycle starts.
HandleAtStart(p, b) == latest[p]

\* withLatestFrom sits before concatMap: a buffered value is the pair
\* [event, handle] made when the event arrived.
HandleOf(p, b) == b.h

\* mergeMap in place of concatMap: no limit on the active inner subscriptions.
CanStartMerged(p, fl) == TRUE

\* mergeMap with concurrent = 2.
CanStartTwo(p, fl) == Cardinality({c \in fl : c.p = p /\ c.live}) < 2

\* concatMap is mergeMap with concurrent = 1: active < concurrent, active
\* counting the open inner subscriptions of this subscription.
CanStart(p, fl) == Cardinality({c \in fl : c.p = p /\ c.live}) < 1

\* The value goes to one of the subscribers only.
DeliverToOne(rc, ls, n) ==
  [l \in AllListeners |->
     IF ls # {} /\ l = (CHOOSE k \in ls : TRUE) THEN Append(rc[l], n) ELSE rc[l]]

\* Subject.next: one notification for each subscriber in ls of the output's
\* subject, whose received values are rc.
Deliver(rc, ls, n) ==
  [l \in AllListeners |-> IF l \in ls THEN Append(rc[l], n) ELSE rc[l]]

\* What the pipeline of c does when the step of c ends with the cycle as c2
\* and the store as st: nothing while the function is suspended, or when the
\* inner subscription was closed; on an inner error the error goes to the
\* listeners and the subscription to the source ends with the buffer; when
\* the inner observable completes, its value (if any) has been emitted to
\* every listener and the next buffered event starts its cycle.
React(c, c2, st) ==
  LET p == c.p
      rest == inflight \ {c}
  IN
  /\ store' = st
  /\ IF c2.outcome = "running" THEN
       /\ inflight' = rest \cup {c2}
       /\ UNCHANGED <<sub, buffer, last, started, out, lastOut, err, listeners,
                      recv>>
     ELSE
       /\ last' = [last EXCEPT ![p] = c2]
       /\ IF ~c.live THEN
            /\ inflight' = rest
            /\ UNCHANGED <<sub, buffer, started, out, lastOut, err, listeners,
                           recv>>
          ELSE IF InnerErrors(c2) THEN
            /\ inflight' = rest
            /\ sub' = [sub EXCEPT ![p] = "errored"]
            /\ err' = [err EXCEPT ![p] = ErrorOf(c2)]
            /\ buffer' = [buffer EXCEPT ![p] = <<>>]
            /\ listeners' = [listeners EXCEPT ![p] = {}]
            /\ UNCHANGED <<started, out, lastOut, recv>>
          ELSE
            /\ IF c2.outcome = "done" THEN
                 /\ out' = [out EXCEPT ![p] = Append(@, c2.n)]
                 /\ lastOut' = [lastOut EXCEPT ![p] = <<Returned(c2)>>]
                 /\ recv' = [recv EXCEPT ![p] = Deliver(@, listeners[p], c2.n)]
               ELSE UNCHANGED <<out, lastOut, recv>>
            /\ UNCHANGED err
            /\ IF buffer[p] # <<>> /\ CanStart(p, rest) THEN
                 LET b == Head(buffer[p]) IN
                 /\ inflight' = rest \cup
                      {[NewCycle(p, b.n, b.event, HandleOf(p, b), st, Summary(c2))
                          EXCEPT !.lh = latest[p]]}
                 /\ buffer' = [buffer EXCEPT ![p] = Tail(@)]
                 /\ started' = [started EXCEPT ![p] = @ + 1]
                 /\ UNCHANGED <<sub, listeners>>
               ELSE
                 LET ends == srcDone[p] /\ buffer[p] = <<>>
                               /\ {d \in rest : d.p = p /\ d.live} = {}
                 IN
                 /\ inflight' = rest
                 /\ sub' = [sub EXCEPT ![p] = IF ends THEN "completed" ELSE @]
                 /\ listeners' = [listeners EXCEPT ![p] = IF ends THEN {} ELSE @]
                 /\ UNCHANGED <<buffer, started>>

\* The listener l subscribes to the output of every pipeline in ps.  The
\* first subscriber makes share() subscribe the pipeline: withLatestFrom
\* subscribes persistence$ (which replays its last handle) and then the
\* source; a further subscriber only joins the subject.
Attach(ps, l) ==
  /\ \A p \in ps : l \notin listeners[p] /\ sub[p] \in {"idle", "active"}
  /\ listeners' = [p \in Pipes |->
                     IF p \in ps THEN listeners[p] \cup {l} ELSE listeners[p]]
  /\ sub' = [p \in Pipes |-> IF p \in ps THEN "active" ELSE sub[p]]
  /\ latest' = [p \in Pipes |->
                  IF p \in ps /\ sub[p] = "idle" THEN handle ELSE latest[p]]

\* takeUntil on the first of the streams only.
ReleaseOne(ps, l) ==
  LET one == IF ps = {} THEN {} ELSE {CHOOSE p \in ps : TRUE} IN
  /\ listeners' = [p \in Pipes |->
                     IF p \in one THEN listeners[p] \ {l} ELSE listeners[p]]
  /\ sub' = [p \in Pipes |->
               IF p \in one /\ listeners[p] = {l} THEN "idle" ELSE sub[p]]
  /\ UNCHANGED <<latest, buffer, inflight>>

\* Unsubscribing cancels the cycles in flight.
ReleaseCancels(ps, l) ==
  LET torn == {p \in ps : listeners[p] = {l}} IN
  /\ listeners' = [p \in Pipes |->
                     IF p \in ps THEN listeners[p] \ {l} ELSE listeners[p]]
  /\ sub' = [p \in Pipes |-> IF p \in torn THEN "idle" ELSE sub[p]]
  /\ latest' = [p \in Pipes |-> IF p \in torn THEN NoHandle ELSE latest[p]]
  /\ buffer' = [p \in Pipes |-> IF p \in torn THEN <<>> ELSE buffer[p]]
  /\ inflight' = {c \in inflight : c.p \notin torn}

\* The listener l unsubscribes from the output of every pipeline in ps.
\* When the last subscriber of an output leaves, share() unsubscribes the
\* pipeline: withLatestFrom and concatMap are torn down with the buffer and
\* the inner subscription; the promise of the cycle in flight is not
\* cancelled.
Release(ps, l) ==
  LET torn == {p \in ps : listeners[p] = {l}} IN
  /\ listeners' = [p \in Pipes |->
                     IF p \in ps THEN listeners[p] \ {l} ELSE listeners[p]]
  /\ sub' = [p \in Pipes |-> IF p \in torn THEN "idle" ELSE sub[p]]
  /\ latest' = [p \in Pipes |-> IF p \in torn THEN NoHandle ELSE latest[p]]
  /\ buffer' = [p \in Pipes |-> IF p \in torn THEN <<>> ELSE buffer[p]]
  /\ inflight' = {IF c.p \in torn THEN [c EXCEPT !.live = FALSE] ELSE c :
                    c \in inflight}

\* A listener subscribes to the output of p.
Subscribe(p, l) ==
  /\ Attach({p}, l)
  /\ UNCHANGED <<variant, store, handle, sent, srcDone, buffer, inflight, last,
                 started, out, lastOut, err, folded, plain, recv, factory,
                 filterVars>>

\* A listener unsubscribes from the output of p.
Unsubscribe(p, l) ==
  /\ l \in listeners[p]
  /\ Release({p}, l)
  /\ UNCHANGED <<variant, store, handle, sent, srcDone, last, started, out,
                 lastOut, err, folded, plain, recv, factory, filterVars>>

\* The new subject replays the last entity to the new subscriber.
ResubscribeReplays(p, l) ==
  /\ sub[p] \in {"errored", "completed"}
  /\ l \in Listeners
  /\ IF srcDone[p] THEN
       /\ sub' = [sub EXCEPT ![p] = "completed"]
       /\ UNCHANGED <<listeners, latest>>
     ELSE
       /\ sub' = [sub EXCEPT ![p] = "active"]
       /\ listeners' = [listeners EXCEPT ![p] = {l}]
       /\ latest' = [latest EXCEPT ![p] = handle]
  /\ recv' = [recv EXCEPT ![p][l] = @ \o out[p]]
  /\ UNCHANGED <<variant, store, handle, sent, srcDone, buffer, inflight, last,
                 started, out, lastOut, err, folded, plain, factory, filterVars>>

\* A listener subscribes to the output of p after it has errored or
\* completed: share() has reset, so a new subject is made and the pipeline
\* is subscribed anew, withLatestFrom to persistence$ and to the source.  A
\* source that has completed completes the new subscription at once; nothing
\* is replayed to the subscriber.
Resubscribe(p, l) ==
  /\ sub[p] \in {"errored", "completed"}
  /\ l \in Listeners
  /\ IF srcDone[p] THEN
       /\ sub' = [sub EXCEPT ![p] = "completed"]
       /\ UNCHANGED <<listeners, latest>>
     ELSE
       /\ sub' = [sub EXCEPT ![p] = "active"]
       /\ listeners' = [listeners EXCEPT ![p] = {l}]
       /\ latest' = [latest EXCEPT ![p] = handle]
  /\ UNCHANGED recv
  /\ UNCHANGED <<variant, store, handle, sent, srcDone, buffer, inflight, last,
                 started, out, lastOut, err, folded, plain, factory, filterVars>>

\* subscriptionFactory(observables, destruction$, mapFunction) with the
\* outputs of the pipelines in ps as observables: each is subscribed through
\* takeUntil(destruction$).
SubscriptionFactory(ps) ==
  /\ factory = "none"
  /\ factory' = "attached"
  /\ Attach(ps, FactoryListener)
  /\ UNCHANGED <<variant, store, handle, sent, srcDone, buffer, inflight, last,
                 started, out, lastOut, err, folded, plain, recv, filterVars>>

\* destruction$ emits: every takeUntil completes its subscriber and
\* unsubscribes from its stream.
Destroy ==
  /\ factory = "attached"
  /\ factory' = "destroyed"
  /\ Release({p \in Pipes : FactoryListener \in listeners[p]}, FactoryListener)
  /\ UNCHANGED <<variant, store, handle, sent, srcDone, last, started, out,
                 lastOut, err, folded, plain, recv, filterVars>>

\* persistence$ emits the store handle h.
PersistenceEmit(h) ==
  /\ h # handle
  /\ handle' = h
  /\ latest' = [p \in Pipes |-> IF sub[p] = "active" THEN h ELSE latest[p]]
  /\ UNCHANGED <<variant, store, sub, sent, srcDone, buffer, inflight, last,
                 started, out, lastOut, err, folded, plain, listeners, recv,
                 factory, filterVars>>

\* The source of p emits ev.  withLatestFrom pairs it with the latest handle,
\* or lets it fall when no handle has been seen; concatMap starts its cycle
\* or buffers it.
Emit(p, ev) ==
  /\ sub[p] = "active"
  /\ ~srcDone[p]
  /\ sent[p] < MaxEvents
  /\ sent' = [sent EXCEPT ![p] = @ + 1]
  /\ IF latest[p] = NoHandle THEN
       UNCHANGED <<inflight, buffer, started, folded, plain>>
     ELSE
       /\ IF plain[p] /\ ev.meta.eventType = "add" THEN
            /\ folded' = [folded EXCEPT ![p][ev.id] = <<Handler("add", @, ev)>>]
            /\ UNCHANGED plain
          ELSE
            /\ folded' = [folded EXCEPT ![p] = [i \in Ids |-> <<>>]]
            /\ plain' = [plain EXCEPT ![p] = FALSE]
       /\ IF CanStart(p, inflight) THEN
            /\ inflight' = inflight \cup
                 {NewCycle(p, sent[p] + 1, ev, latest[p], store, Summary(last[p]))}
            /\ started' = [started EXCEPT ![p] = @ + 1]
            /\ UNCHANGED buffer
          ELSE
            /\ Len(buffer[p]) < MaxBuffer
            /\ buffer' = [buffer EXCEPT ![p] =
                            Append(@, [n |-> sent[p] + 1, event |-> ev, h |-> latest[p]])]
            /\ UNCHANGED <<inflight, started>>
  /\ UNCHANGED <<variant, store, handle, sub, latest, srcDone, last, out,
                 lastOut, err, listeners, recv, factory, filterVars>>

\* The source of p emits while the pipeline is not subscribed to it: the
\* value reaches no operator of the service.
EmitUnheard(p) ==
  /\ sub[p] # "active"
  /\ ~srcDone[p]
  /\ sent[p] < MaxEvents
  /\ sent' = [sent EXCEPT ![p] = @ + 1]
  /\ UNCHANGED <<variant, store, handle, sub, latest, srcDone, buffer, inflight,
                 last, started, out, lastOut, err, folded, plain, listeners,
                 recv, factory, filterVars>>

\* The source of p completes; the output completes once nothing is in flight
\* or buffered.
SourceComplete(p) ==
  LET ends == buffer[p] = <<>> /\ {c \in inflight : c.p = p /\ c.live} = {} IN
  /\ sub[p] = "active"
  /\ ~srcDone[p]
  /\ srcDone' = [srcDone EXCEPT ![p] = TRUE]
  /\ sub' = [sub EXCEPT ![p] = IF ends THEN "completed" ELSE @]
  /\ listeners' = [listeners EXCEPT ![p] = IF ends THEN {} ELSE @]
  /\ UNCHANGED <<variant, store, handle, latest, sent, buffer, inflight, last,
                 started, out, lastOut, err, folded, plain, recv, factory,
                 filterVars>>

\* await persistence.get(entityPersistence, eventId) settles: with the
\* record, with the store's not-found failure, or (io) with another failure.
GetDone(c, io) ==
  /\ c.pc = "get"
  /\ LET rec == StoreGet(store, c.h, c.event.id)
         got == IF io THEN "io" ELSE IF rec = <<>> THEN "notfound" ELSE "ok"
         c1 == [c EXCEPT !.got = got,
                         !.currentEntity = IF got = "ok" THEN rec ELSE <<>>]
     IN React(c, AfterGet(variant, c1), store)
  /\ plain' = [plain EXCEPT ![c.p] = @ /\ ~io]
  /\ folded' = [folded EXCEPT ![c.p] = IF io THEN [i \in Ids |-> <<>>] ELSE @]
  /\ UNCHANGED <<variant, handle, latest, sent, srcDone, factory, filterVars>>

\* await sideHandlers[eventType](currentEntity, event, updatedEntity) settles.
SideDone(c) ==
  /\ c.pc = "side"
  /\ React(c, AfterSide(c), store)
  /\ UNCHANGED <<variant, handle, latest, sent, srcDone, folded, plain, factory,
                 filterVars>>

\* await persistence.put / persistence.remove settles: the single-record
\* write has taken place, or (io) it failed and wrote nothing.
WriteDone(c, io) ==
  /\ c.pc \in {"put", "remove"}
  /\ IF io THEN React(c, Fail(c, "IOFailure"), store)
     ELSE React(c, AfterWrite(c),
                IF c.pc = "remove"
                  THEN StoreRemove(store, c.h, WriteKey(c))
                  ELSE StorePut(store, c.h, WriteKey(c), c.handledEntity[1]))
  /\ plain' = [plain EXCEPT ![c.p] = @ /\ ~io]
  /\ folded' = [folded EXCEPT ![c.p] = IF io THEN [i \in Ids |-> <<>>] ELSE @]
  /\ UNCHANGED <<variant, handle, latest, sent, srcDone, factory, filterVars>>

\* One subscription of one service, with one store handle.
Next ==
  \/ \E p \in MainPipes : Subscribe(p, "l1")
  \/ PersistenceEmit("h1")
  \/ \E p \in MainPipes, ev \in SourceEvents : Emit(p, ev)
  \/ \E p \in MainPipes : SourceComplete(p)
  \/ \E c \in inflight, io \in BOOLEAN : GetDone(c, io)
  \/ \E c \in inflight : SideDone(c)
  \/ \E c \in inflight, io \in BOOLEAN : WriteDone(c, io)

Spec == Init /\ [][Next]_vars

\* The sources have events left to emit where listeners come and go.
MoreShared == sent["p1"] + sent["p2"] < MaxShared

\* The events of the sources whose listeners come and go: the tests' 'add'
\* and 'removeItem' events of one cart.
ShareEvents ==
  { e \in SourceEvents : e.id = "x" /\ e.meta.eventType \in {"add", "removeItem"} }

\* One application of a service whose output has any number of listeners,
\* which come and go.
NextShare ==
  \/ \E p \in MainPipes, l \in Listeners : Subscribe(p, l)
  \/ \E p \in MainPipes, l \in Listeners : Unsubscribe(p, l)
  \/ PersistenceEmit("h1")
  \/ \E p \in MainPipes, ev \in ShareEvents : MoreShared /\ Emit(p, ev)
  \/ \E p \in MainPipes : MoreShared /\ EmitUnheard(p)
  \/ \E p \in MainPipes : SourceComplete(p)
  \/ \E c \in inflight, io \in BOOLEAN : GetDone(c, io)
  \/ \E c \in inflight : SideDone(c)
  \/ \E c \in inflight, io \in BOOLEAN : WriteDone(c, io)

SpecShare == Init /\ [][NextShare]_vars

\* Two applications of one service to two sources, their outputs handed to
\* subscriptionFactory together.
NextTeardown ==
  \/ \E ps \in (SUBSET Pipes) \ {{}} : SubscriptionFactory(ps)
  \/ Destroy
  \/ PersistenceEmit("h1")
  \/ \E p \in Pipes, ev \in ShareEvents : MoreShared /\ Emit(p, ev)
  \/ \E p \in Pipes : MoreShared /\ EmitUnheard(p)
  \/ \E p \in Pipes : SourceComplete(p)
  \/ \E c \in inflight, io \in BOOLEAN : GetDone(c, io)
  \/ \E c \in inflight : SideDone(c)
  \/ \E c \in inflight, io \in BOOLEAN : WriteDone(c, io)

SpecTeardown == Init /\ [][NextTeardown]_vars

\* One application of a service whose listeners come and go and come back
\* after the output has errored or completed.
NextRerun ==
  \/ \E p \in MainPipes, l \in Listeners : Subscribe(p, l)
  \/ \E p \in MainPipes, l \in Listeners : Unsubscribe(p, l)
  \/ \E p \in MainPipes, l \in Listeners : Resubscribe(p, l)
  \/ PersistenceEmit("h1")
  \/ \E p \in MainPipes, ev \in ShareEvents : MoreShared /\ Emit(p, ev)
  \/ \E p \in MainPipes : MoreShared /\ EmitUnheard(p)
  \/ \E p \in MainPipes : SourceComplete(p)
  \/ \E c \in inflight, io \in BOOLEAN : GetDone(c, io)
  \/ \E c \in inflight : SideDone(c)
  \/ \E c \in inflight, io \in BOOLEAN : WriteDone(c, io)

SpecRerun == Init /\ [][NextRerun]_vars

\* One subscription of one service whose persistence$ emits one store handle
\* after another.
NextHandles ==
  \/ \E p \in MainPipes : Subscribe(p, "l1")
  \/ \E h \in Handles : PersistenceEmit(h)
  \/ \E p \in MainPipes, ev \in ShareEvents : Emit(p, ev)
  \/ \E p \in MainPipes : SourceComplete(p)
  \/ \E c \in inflight, io \in BOOLEAN : GetDone(c, io)
  \/ \E c \in inflight : SideDone(c)
  \/ \E c \in inflight, io \in BOOLEAN : WriteDone(c, io)

SpecHandles == Init /\ [][NextHandles]_vars

\* The sources of the two instances have events left to emit.
MoreEvents == sent["p1"] + sent["p2"] < MaxEvents

\* Two entity services made by two calls of entityServiceFactory for the same
\* collection and store, each applied to its own source and subscribed once.
NextInstances ==
  \/ \E p \in Pipes : Subscribe(p, "l1")
  \/ PersistenceEmit("h1")
  \/ \E p \in Pipes, ev \in ShareEvents : MoreEvents /\ Emit(p, ev)
  \/ \E p \in Pipes : SourceComplete(p)
  \/ \E c \in inflight, io \in BOOLEAN : GetDone(c, io)
  \/ \E c \in inflight : SideDone(c)
  \/ \E c \in inflight, io \in BOOLEAN : WriteDone(c, io)

SpecInstances == Init /\ [][NextInstances]_vars

\* The values fed to a filter: T & Persistable, the id possibly undefined.
FilterValues == { [id |-> i, amount |-> a] : i \in Ids \cup {NoId}, a \in Amounts }

\* Only the id of the value before is remembered.
RememberLast(m, v) == {v.id}

\* map.set(event.id, true)
Remember(m, v) == m \cup {v.id}

\* The source of a filterPreviouslySeenIds() transform emits v: the
\* predicate of filter() looks the id up in the Map, drops the value when it
\* is there, and otherwise records the id and lets the value through.
Filter(v) ==
  /\ Len(fin) < MaxLen
  /\ fin' = Append(fin, v)
  /\ LET hasId == v.id \in map IN
     IF hasId THEN UNCHANGED <<map, fout>>
     ELSE /\ map' = Remember(map, v)
          /\ fout' = Append(fout, v)
  /\ UNCHANGED <<fsub, fmark, fin2, fout2, mapB, finB, foutB>>
  /\ UNCHANGED serviceVars

\* One subscription of one filterPreviouslySeenIds() transform.
NextFilter == \E v \in FilterValues : Filter(v)

SpecFilter == Init /\ [][NextFilter]_vars

\* One subscription of one service with a finite source.
NextLive ==
  \/ \E p \in MainPipes : Subscribe(p, "l1")
  \/ PersistenceEmit("h1")
  \/ \E p \in MainPipes, ev \in ShareEvents : Emit(p, ev)
  \/ \E p \in MainPipes : SourceComplete(p)
  \/ \E c \in inflight, io \in BOOLEAN : GetDone(c, io)
  \/ \E c \in inflight : SideDone(c)
  \/ \E c \in inflight, io \in BOOLEAN : WriteDone(c, io)

\* The source is finite: once subscribed it completes.  Every store call
\* and every side handler call returns or fails: the promise the function
\* awaits settles and the function resumes.
FairLive ==
  /\ \A p \in MainPipes : WF_vars(SourceComplete(p))
  /\ WF_vars(\E c \in inflight, io \in BOOLEAN : GetDone(c, io))
  /\ WF_vars(\E c \in inflight : SideDone(c))
  /\ WF_vars(\E c \in inflight, io \in BOOLEAN : WriteDone(c, io))

SpecLive == Init /\ [][NextLive]_vars /\ FairLive

\* The values of the streams of several subscriptions and transforms.
SeenValues == { v \in FilterValues : v.amount = 1 }

\* The streams of the transforms have values left to feed.
MoreValues == Len(fin) + Len(fin2) + Len(finB) < MaxLen

\* The subscription of the first stream ends: it completes, errors or is
\* unsubscribed.  filter() is torn down; the Map is a const of the closure
\* of the filterPreviouslySeenIds() call and nothing touches it.
FilterEnd(how) ==
  /\ fsub = "on"
  /\ fsub' = how
  /\ UNCHANGED <<map, fin, fout, fmark, fin2, fout2, mapB, finB, foutB>>
  /\ UNCHANGED serviceVars

\* Every subscription gets a Map of its own.
FilterStartFresh ==
  /\ fsub # "on"
  /\ fsub' = "on"
  /\ fmark' = Len(fin)
  /\ map' = {}
  /\ UNCHANGED <<fin, fout, fin2, fout2, mapB, finB, foutB>>
  /\ UNCHANGED serviceVars

\* The stream made by the same transform is subscribed again: filter() is
\* set up anew with the same predicate, which closes over the same Map.
FilterStart ==
  /\ fsub # "on"
  /\ fsub' = "on"
  /\ fmark' = Len(fin)
  /\ UNCHANGED map
  /\ UNCHANGED <<fin, fout, fin2, fout2, mapB, finB, foutB>>
  /\ UNCHANGED serviceVars

\* A second stream the same transform was applied to emits v: the predicate
\* is the same closure, over the same Map.
FilterOther(v) ==
  /\ fin2' = Append(fin2, v)
  /\ LET hasId == v.id \in map IN
     IF hasId THEN UNCHANGED <<map, fout2>>
     ELSE /\ map' = Remember(map, v)
          /\ fout2' = Append(fout2, v)
  /\ UNCHANGED <<fin, fout, fsub, fmark, mapB, finB, foutB>>
  /\ UNCHANGED serviceVars

\* The source of a transform made by another filterPreviouslySeenIds() call,
\* with the Map of that call, emits v.
FilterSecond(v) ==
  /\ finB' = Append(finB, v)
  /\ LET hasId == v.id \in mapB IN
     IF hasId THEN UNCHANGED <<mapB, foutB>>
     ELSE /\ mapB' = Remember(mapB, v)
          /\ foutB' = Append(foutB, v)
  /\ UNCHANGED <<map, fin, fout, fsub, fmark, fin2, fout2>>
  /\ UNCHANGED serviceVars

\* Two filterPreviouslySeenIds() transforms, the first applied to two
\* streams, one of which is subscribed time and again.
NextTransforms ==
  \/ \E v \in SeenValues : MoreValues /\ fsub = "on" /\ Filter(v)
  \/ \E how \in {"completed", "errored", "unsubscribed"} : FilterEnd(how)
  \/ FilterStart
  \/ \E v \in SeenValues : MoreValues /\ FilterOther(v)
  \/ \E v \in SeenValues : MoreValues /\ FilterSecond(v)

SpecTransforms == Init /\ [][NextTransforms]_vars

(***************************************************************************)
(* Properties.                                                             *)
(***************************************************************************)
CyclesOf(p) == {c \in inflight : c.p = p}

\* Nothing of p is in flight or waiting.
Quiescent(p) == CyclesOf(p) = {} /\ buffer[p] = <<>>

\* C1: within one subscription at most one cycle is in flight at any time,
\* and the cycle in flight is the oldest unsettled event: every cycle that
\* settled has a smaller event number and every buffered event a larger one,
\* so the Nth cycle issues its get only after the (N-1)th has settled.
C1_Sequential ==
  \A p \in Pipes :
    /\ Cardinality(CyclesOf(p)) <= 1
    /\ \A c \in CyclesOf(p) :
         /\ last[p].outcome # "none" => last[p].n < c.n
         /\ \A i \in 1..Len(buffer[p]) : buffer[p][i].n > c.n
    /\ \A i, j \in 1..Len(buffer[p]) : i < j => buffer[p][i].n < buffer[p][j].n

\* An event arrived while a cycle was suspended at its write, after an
\* earlier cycle had settled.
C1_Witness ==
  \E c \in CyclesOf("p1") :
    /\ c.pc \in {"put", "remove"}
    /\ last["p1"].outcome = "done"
    /\ Len(buffer["p1"]) >= 1


\* The cycles of p whose state is known: those in flight and the one that
\* settled last.
Observed(p) == CyclesOf(p) \cup {c \in {last[p]} : c.outcome # "none"}

\* The get of c settled with the store's answer (a record or not-found).
Fetched(c) == c.got \in {"ok", "notfound"}

\* C2 as claimed: when the cycle before c was for the same id and wrote, the
\* get of c returns exactly the entity that cycle put, or nothing if it
\* removed the record.
C2_Original ==
  \A p \in Pipes : \A c \in Observed(p) :
    (Fetched(c) /\ c.prev.outcome = "done" /\ c.prev.id = c.event.id)
      => c.currentEntity = c.prev.rec

\* C2 amended: the same, when the earlier cycle's write was keyed by the
\* event's id (a put is keyed by the settled entity's own id).
C2_ObservesWrite ==
  \A p \in Pipes : \A c \in Observed(p) :
    (Fetched(c) /\ c.prev.outcome = "done" /\ c.prev.id = c.event.id
       /\ c.prev.wkey = c.event.id)
      => c.currentEntity = c.prev.rec

\* A second cycle fetched the entity the first one put, which differs from
\* the record before the first cycle.
C2_Witness ==
  \E c \in CyclesOf("p1") :
    /\ c.got = "ok"
    /\ c.prev.outcome = "done" /\ c.prev.id = c.event.id /\ c.prev.wop = "put"
    /\ c.prev.wkey = c.event.id
    /\ c.currentEntity = c.prev.rec
    /\ c.prev.rec # c.prev.old
    /\ c.prev.old # <<>>


\* C3 as claimed, on the tests' runs ('add' events only, no store failure
\* other than not-found, no coordination rejection): once every accepted
\* event has settled, the record of each id is the left fold of the 'add'
\* transition function over the events for that id, starting from no record.
C3_LeftFold ==
  \A p \in Pipes :
    (Quiescent(p) /\ plain[p] /\ err[p] # "Invalid stock" /\ latest[p] # NoHandle)
      => \A i \in Ids : store[latest[p]][i] = folded[p][i]

\* The store as a cycle that performed no write leaves it.
Untouched(c) == c.writes = 0 /\ c.wop = "none" /\ store = c.pre

\* C4: a cycle whose side handler has settled on an entity it rejects has
\* failed with the side handler's error, has performed no put and no remove,
\* and every record is as it was when the cycle started.
C4_RejectAborts ==
  \A p \in Pipes : \A c \in Observed(p) :
    (c.handledEntity # <<>> /\ c.pc # "side" /\ HasSide(variant, c.event.meta.eventType)
       /\ SideRejects(c.handledEntity[1]))
      => (c.outcome = "failed" /\ c.err = "Invalid stock" /\ Untouched(c))

\* The side handler rejected an update of a record that existed.
C4_Witness ==
  /\ last["p1"].outcome = "failed"
  /\ last["p1"].err = "Invalid stock"
  /\ last["p1"].currentEntity # <<>>
  /\ store["h1"][last["p1"].event.id] = last["p1"].currentEntity

\* C5: a cycle that returned has performed exactly one write, a put or a
\* remove, and the store differs from the store at its start in that one
\* record at most; a cycle that failed, at whatever step, and a cycle still
\* suspended have performed none.
C5_AllOrNothing ==
  \A p \in Pipes : \A c \in Observed(p) :
    IF c.outcome = "done"
      THEN /\ c.writes = 1
           /\ c.wop \in {"put", "remove"}
           /\ store = [c.pre EXCEPT ![c.h][c.wkey] =
                         IF c.wop = "put" THEN c.handledEntity ELSE <<>>]
      ELSE Untouched(c)

\* The put of an update of an existing record failed.
C5_Witness ==
  /\ last["p1"].outcome = "failed"
  /\ last["p1"].err = "IOFailure"
  /\ last["p1"].got = "ok"
  /\ last["p1"].handledEntity # <<>>

\* The creation sentinel as the claim names it.
C6_Sentinel == IF variant = "unnamed" THEN "add" ELSE "new"

C7_MissingId ==
  \A p \in Pipes : \A c \in Observed(p) :
    (c.handledEntity # <<>> /\ c.pc # "side"
       /\ ~c.handledEntity[1].deleted /\ c.handledEntity[1].id = NoId)
      => (c.outcome = "failed" /\ c.err = "MissingId" /\ Untouched(c))

\* The handler of an existing record forgot the id.
C7_Witness ==
  /\ last["p1"].outcome = "failed"
  /\ last["p1"].err = "MissingId"
  /\ last["p1"].got = "ok"
  /\ store["h1"][last["p1"].event.id] # <<>>

\* C8: when a cycle of a subscription has failed, the output has ended with
\* an error notification carrying the cycle's error, and no value was
\* emitted for the failed event; the output carries an error only then.
C8_ErrorSignal ==
  \A p \in Pipes :
    /\ last[p].outcome = "failed" =>
         /\ sub[p] = "errored"
         /\ err[p] = last[p].err
         /\ err[p] # ""
         /\ \A i \in 1..Len(out[p]) : out[p][i] # last[p].n
    /\ (sub[p] = "errored" \/ err[p] # "") => last[p].outcome = "failed"

\* A coordination rejection reached the listener after an entity had been
\* emitted.
C8_Witness ==
  /\ sub["p1"] = "errored"
  /\ err["p1"] = "Invalid stock"
  /\ Len(out["p1"]) >= 1

\* C9: after a failed cycle the output has ended: no cycle of the
\* subscription is in flight, nothing waits in the buffer, no cycle was
\* started beyond the failed one, every value emitted is of an event before
\* the failed one, and the store is as it was when the failed cycle started.
C9_Terminated ==
  \A p \in Pipes :
    last[p].outcome = "failed" =>
      /\ sub[p] = "errored"
      /\ CyclesOf(p) = {}
      /\ buffer[p] = <<>>
      /\ started[p] = Len(out[p]) + 1
      /\ \A i \in 1..Len(out[p]) : out[p][i] < last[p].n
      /\ store = last[p].pre

\* A cycle failed after an earlier one had emitted, with later events of the
\* source already delivered to the service.
C9_Witness ==
  /\ sub["p1"] = "errored"
  /\ Len(out["p1"]) >= 1
  /\ sent["p1"] > last["p1"].n

\* C10 as claimed: once nothing is in flight or waiting, and no error has
\* ended the output, entityEventHandler was invoked once for every event the
\* source delivered.
C10_OneCyclePerEvent ==
  \A p \in Pipes :
    (Quiescent(p) /\ err[p] = "") => started[p] = sent[p]

\* The cycles of p are one per event, each with at most one call of the
\* transition function and at most one write.
C11_OncePerEvent ==
  \A p \in Pipes :
    /\ started[p] + Len(buffer[p]) <= sent[p]
    /\ \A c, d \in CyclesOf(p) : c.n = d.n => c = d
    /\ \A c \in Observed(p) : c.invoked <= 1 /\ c.writes <= 1

\* A step in which the source of p emits to a service that has listeners and
\* a store handle adds one cycle, started or queued, however many listeners
\* there are; a step in which the output emits gives the entity once to each
\* listener subscribed then and to nobody else.
C11_Step ==
  \A p \in Pipes :
    /\ started'[p] <= started[p] + 1
    /\ (sent'[p] # sent[p] /\ listeners[p] # {} /\ latest[p] # NoHandle)
         => started'[p] + Len(buffer'[p]) = started[p] + Len(buffer[p]) + 1
    /\ IF out'[p] # out[p]
         THEN /\ Len(out'[p]) = Len(out[p]) + 1
              /\ \A l \in AllListeners :
                   recv'[p][l] = IF l \in listeners[p]
                                   THEN Append(recv[p][l], out'[p][Len(out'[p])])
                                   ELSE recv[p][l]
         ELSE recv'[p] = recv[p]

\* C11: the output is multicast.  With any number of simultaneous listeners
\* each event triggers exactly one cycle (one get, one call of the transition
\* function, at most one put or remove), and every listener subscribed when
\* the cycle settles receives the settled entity exactly once.
C11_Multicast == []C11_OncePerEvent /\ [][C11_Step]_vars

\* Two events ran one cycle each; the first listener received both entities
\* and the listener that joined in between received the second.
C11_Witness ==
  /\ listeners["p1"] = Listeners
  /\ started["p1"] = 2
  /\ Len(recv["p1"]["l1"]) = 2
  /\ recv["p1"]["l2"] = <<2>>

\* The subsequence of the first occurrences of each id in s.
RECURSIVE FirstOccurrences(_)
FirstOccurrences(s) ==
  IF s = <<>> THEN <<>>
  ELSE LET n == Len(s)
           front == SubSeq(s, 1, n - 1)
       IN IF \E i \in 1..(n - 1) : s[i].id = s[n].id
            THEN FirstOccurrences(front)
            ELSE Append(FirstOccurrences(front), s[n])

\* C12: whatever sequence is fed through one filterPreviouslySeenIds
\* transform, its output is the subsequence of the first occurrences of each
\* id, in input order: a later value with an id already seen is dropped and
\* changes nothing for the values with other ids.
C12_FirstOccurrences == fout = FirstOccurrences(fin)

\* Two ids interleaved, each repeated with another payload: the repeats were
\* dropped.
C12_Witness ==
  /\ Len(fin) = 4
  /\ fin[1].id = fin[3].id /\ fin[1] # fin[3]
  /\ fin[2].id = fin[4].id /\ fin[2] # fin[4]
  /\ fin[1].id # fin[2].id
  /\ fout = <<fin[1], fin[2]>>

\* After destruction$ has emitted no stream is subscribed by the factory.
C13_Released ==
  factory = "destroyed" =>
    \A p \in Pipes : FactoryListener \notin listeners[p] /\ sub[p] # "active"

\* After destruction$ has emitted the consumption function is not invoked.
C13_Step ==
  factory = "destroyed" =>
    \A p \in Pipes : recv'[p][FactoryListener] = recv[p][FactoryListener]

\* C13: once destruction$ has emitted, every stream that was passed to
\* subscriptionFactory is unsubscribed and stays so, and the consumption
\* function is never invoked again for a value of any of them, whatever the
\* order of the sources' emissions, the cycles' steps and the teardown.
C13_Teardown == []C13_Released /\ [][C13_Step]_vars

\* The teardown came after the first stream had delivered an entity and
\* while a cycle of the second was in flight; that cycle has settled since
\* with nothing delivered.
C13_Witness ==
  /\ factory = "destroyed"
  /\ recv["p1"][FactoryListener] # <<>>
  /\ last["p2"].outcome = "done" /\ ~last["p2"].live
  /\ recv["p2"][FactoryListener] = <<>>

\* A record as the write of the settled cycle c leaves it.
Written(c) == IF c.wop = "put" THEN c.handledEntity ELSE <<>>

\* While the output of p has no listener nothing waits in the buffer, the
\* cycles in flight have lost their inner subscription, and the write of a
\* cycle that settled after the teardown is in the store.
C14_Detached ==
  \A p \in Pipes :
    /\ listeners[p] = {} =>
         (buffer[p] = <<>> /\ \A c \in CyclesOf(p) : ~c.live)
    /\ (last[p].outcome = "done" /\ ~last[p].live) =>
         store[last[p].h][last[p].wkey] = Written(last[p])

\* The step that tears the subscription down keeps every cycle in flight;
\* a step without listeners starts no cycle and emits nothing; a cycle that
\* lost its inner subscription is never dropped: it stays, moves on to its
\* next step, or settles.
C14_Step ==
  \A p \in Pipes :
    /\ (sub[p] = "active" /\ sub'[p] = "idle") =>
         /\ started'[p] = started[p]
         /\ \A c \in CyclesOf(p) : [c EXCEPT !.live = FALSE] \in inflight'
    /\ (listeners[p] = {} /\ listeners'[p] = {}) =>
         (started'[p] = started[p] /\ out'[p] = out[p] /\ recv'[p] = recv[p])
    /\ \A c \in CyclesOf(p) :
         ~c.live =>
           \/ \E d \in inflight' : d.p = p /\ d.n = c.n /\ ~d.live
           \/ (last'[p].n = c.n /\ last'[p].outcome \in {"done", "failed"})

\* C14: tearing a subscription down stops the scheduling of cycles and rolls
\* nothing back: the queued events are discarded and no event starts a cycle
\* while nobody listens, the cycle in flight runs its remaining steps, its
\* write stays in the store, and no entity is emitted for it.
C14_NoRollback == []C14_Detached /\ [][C14_Step]_vars

\* The only listener left while the first cycle was in flight and a second
\* event waited: the first cycle has put its entity since, the second event
\* never started a cycle, and nothing was emitted.
C14_Witness ==
  /\ listeners["p1"] = {}
  /\ sub["p1"] = "idle"
  /\ sent["p1"] = 2
  /\ started["p1"] = 1
  /\ last["p1"].outcome = "done" /\ ~last["p1"].live /\ last["p1"].wop = "put"
  /\ store["h1"]["x"] = last["p1"].handledEntity
  /\ out["p1"] = <<>>

\* C15: a cycle whose settled entity is marked deleted goes to the remove,
\* with or without an id on the entity; when it returns it has issued one
\* remove keyed by the event's id and no put, and the id has no record, so a
\* get for it fails with not-found.  A cycle whose settled entity is not
\* deleted and has an id goes to the put; when it returns it has issued one
\* put of the entity under the entity's id and no remove.
C15_RemoveOrPut ==
  \A p \in Pipes : \A c \in Observed(p) :
    (c.handledEntity # <<>> /\ c.pc # "side") =>
      LET e == c.handledEntity[1] IN
      IF e.deleted
        THEN /\ c.pc \in {"remove", "end"}
             /\ c.err \in {"", "IOFailure"}
             /\ c.outcome = "done" =>
                  /\ c.writes = 1 /\ c.wop = "remove" /\ c.wkey = c.event.id
                  /\ StoreGet(store, c.h, c.event.id) = <<>>
        ELSE /\ c.pc \in {"put", "end"}
             /\ c.outcome = "done" =>
                  /\ c.writes = 1 /\ c.wop = "put" /\ c.wkey = e.id
                  /\ StoreGet(store, c.h, e.id) = <<e>>

\* A handler answered a bare deleted entity for an existing record: the
\* record was removed under the event's id.
C15_Witness ==
  /\ last["p1"].outcome = "done"
  /\ last["p1"].wop = "remove"
  /\ last["p1"].handledEntity[1].id = NoId
  /\ last["p1"].pre["h1"][last["p1"].event.id] # <<>>
  /\ store["h1"][last["p1"].event.id] = <<>>

\* C16: the entity a cycle returned, which is the value the output emitted
\* for it, has the service's collection and the event's type as its meta,
\* whatever meta the settled entity carried, and the settled entity's other
\* fields.
C16_Meta ==
  \A p \in Pipes :
    (last[p].outcome = "done" /\ last[p].live) =>
      /\ lastOut[p] # <<>>
      /\ LET r == lastOut[p][1]
             e == last[p].handledEntity[1]
         IN /\ r.meta = [entity |-> Collection,
                         eventType |-> last[p].event.meta.eventType]
            /\ r.id = e.id /\ r.amount = e.amount /\ r.deleted = e.deleted
            /\ DOMAIN r = DOMAIN e

\* The transition function copied the event's meta, which names the entity,
\* onto the entity; the emitted entity names the collection instead.
C16_Witness ==
  /\ last["p1"].outcome = "done"
  /\ last["p1"].event.meta.eventType = "new"
  /\ last["p1"].handledEntity[1].meta.entity = EntityName
  /\ lastOut["p1"] # <<>>
  /\ lastOut["p1"][1].meta.entity = Collection
  /\ lastOut["p1"][1].id = last["p1"].event.id

\* C17 as claimed: a cycle of an event whose type is not a key of the
\* transition table has failed as soon as its get has settled, whether the
\* record exists or not, and has performed no put and no remove.
C17_FailFast ==
  \A p \in Pipes : \A c \in Observed(p) :
    (c.event.meta.eventType \notin HandlerTypes /\ c.got # "pending")
      => (c.outcome = "failed" /\ c.writes = 0 /\ c.invoked = 0)

\* C18 as claimed: a cycle whose get failed otherwise than by a missing
\* record has failed with that error, for the creation sentinel too, without
\* a call of the transition function and without a write; a cycle that
\* returned had no store failure.
C18_Propagated ==
  \A p \in Pipes : \A c \in Observed(p) :
    /\ c.got = "io" =>
         /\ c.outcome = "failed" /\ c.err = "IOFailure"
         /\ c.invoked = 0 /\ c.handledEntity = <<>>
         /\ Untouched(c)
    /\ c.outcome = "done" => (c.got # "io" /\ c.writes = 1)

\* C19 as claimed: no two cycles of one service are in flight on the same
\* id at the same time, however many sources the service is applied to.
C19_Serialized ==
  \A c, d \in inflight : (c.event.id = d.event.id /\ c.h = d.h) => c = d

C20_Step ==
  /\ \A p \in Pipes :
       (listeners[p] = {} /\ listeners'[p] = {}) =>
         /\ started'[p] = started[p]
         /\ buffer'[p] = <<>>
         /\ sub'[p] = "idle" => latest'[p] = NoHandle
         /\ out'[p] = out[p] /\ recv'[p] = recv[p]
         /\ \A d \in inflight' :
              d.p = p => (~d.live /\ \E c \in CyclesOf(p) : c.n = d.n)
  /\ store' # store =>
       \E c \in inflight : c.pc \in {"put", "remove"} /\ c \notin inflight'
  /\ (inflight = {} /\ \A p \in Pipes : listeners[p] = {} /\ listeners'[p] = {})
       => (store' = store /\ inflight' = {})

Persisted(c) ==
  LET e == c.handledEntity[1] IN
  IF e.deleted THEN c.wop = "remove" /\ StoreGet(store, c.h, c.event.id) = <<>>
  ELSE c.wop = "put" /\ StoreGet(store, c.h, e.id) = <<e>>

\* C24: when the event's type has a coordination function, it is called
\* once, after the one call of the transition function, with the entity as
\* fetched, the event and the transition result, and what it answers is the
\* settled entity: the deleted and id checks look at it, and it is what is
\* persisted and returned.  When the type has none, the transition result is
\* the settled entity.
C24_Coordination ==
  \A p \in Pipes : \A c \in Observed(p) :
    LET t == c.event.meta.eventType IN
    /\ c.updatedEntity # <<>> =>
         (c.invoked = 1
            /\ c.updatedEntity = <<Handler(t, c.currentEntity, c.event)>>)
    /\ IF HasSide(variant, t)
         THEN /\ c.sided = (IF c.updatedEntity # <<>> /\ c.pc # "side" THEN 1 ELSE 0)
              /\ (c.sided = 1 /\ ~(t = "add" /\ SideRejects(c.updatedEntity[1]))) =>
                   /\ c.handledEntity =
                        <<SideResult(t, c.currentEntity, c.event, c.updatedEntity[1])>>
                   /\ c.handledEntity[1].deleted => c.pc \in {"remove", "end"}
                   /\ ~c.handledEntity[1].deleted =>
                        (c.pc \in {"put", "end"} /\ c.err # "MissingId")
                   /\ c.outcome = "done" => Persisted(c)
         ELSE /\ c.sided = 0
              /\ c.handledEntity = c.updatedEntity
              /\ c.outcome = "done" => Persisted(c)
    /\ (c = last[p] /\ c.outcome = "done") =>
         /\ lastOut[p][1].id = c.handledEntity[1].id
         /\ lastOut[p][1].amount = c.handledEntity[1].amount
         /\ lastOut[p][1].deleted = c.handledEntity[1].deleted

\* The transition function marked the entity deleted and the coordination
\* function answered the entity as fetched: the record was put back, not
\* removed.
C24_Witness ==
  /\ last["p1"].outcome = "done"
  /\ last["p1"].sided = 1
  /\ last["p1"].updatedEntity[1].deleted
  /\ last["p1"].handledEntity = last["p1"].currentEntity
  /\ last["p1"].wop = "put"
  /\ store["h1"][last["p1"].event.id] = last["p1"].currentEntity

\* C26: a successful cycle changes at most one store key: a deleting cycle
\* leaves no record under the event's id, whatever the settled entity's id;
\* any other cycle leaves the settled entity under the settled entity's own
\* id; every other record, the one under the event's id included when the
\* settled id differs, is as it was before the cycle.
C26_Frame ==
  \A p \in MainPipes :
    LET c == last[p] IN
    c.outcome = "done" =>
      LET e == c.handledEntity[1]
          key == IF e.deleted THEN c.event.id ELSE e.id
      IN
      /\ key \in Ids
      /\ StoreGet(store, c.h, key) = (IF e.deleted THEN <<>> ELSE <<e>>)
      /\ \A h \in Handles, i \in Ids :
           (h # c.h \/ i # key) => StoreGet(store, h, i) = StoreGet(c.pre, h, i)

\* A cycle settled on an entity whose id is not the event's: the record it
\* fetched under the event's id is still there, and the settled entity is
\* under its own id.
C26_Witness ==
  LET c == last["p1"] IN
  /\ c.outcome = "done"
  /\ c.currentEntity # <<>>
  /\ ~c.handledEntity[1].deleted
  /\ c.handledEntity[1].id # c.event.id
  /\ StoreGet(store, c.h, c.event.id) = c.currentEntity
  /\ StoreGet(store, c.h, c.handledEntity[1].id) = c.handledEntity
  /\ StoreGet(c.pre, c.h, c.handledEntity[1].id) # c.handledEntity

Left(c) == IF c.wop = "put" THEN c.handledEntity ELSE <<>>

\* C22: two service instances on one collection are not protected against
\* each other.  An instance holds an event back only behind a cycle of its
\* own, never for a cycle of the other instance; each cycle settles on what
\* the transition function makes of the record its own get returned,
\* whatever the other instance has written since; and once both instances
\* are at rest after returned cycles on the id, the record is what the
\* cycle that wrote last left, which is one of the two.
C22_Unprotected ==
  /\ \A p \in Pipes :
       buffer[p] # <<>> => \E c \in CyclesOf(p) : c.live
  /\ \A p \in Pipes : \A c \in Observed(p) :
       c.updatedEntity # <<>> =>
         c.updatedEntity =
           <<Handler(c.event.meta.eventType, c.currentEntity, c.event)>>
  /\ ( /\ \A p \in Pipes : Quiescent(p) /\ last[p].outcome = "done"
       /\ last["p1"].h = last["p2"].h )
       => StoreGet(store, last["p1"].h, "x") \in {Left(last["p1"]), Left(last["p2"])}

\* A lost update: the cycles of the two instances fetched the same record,
\* each added its event's amount to it and put the sum, and the record is
\* the one put last: it holds one of the two amounts, not both.
C22_Witness ==
  LET c1 == last["p1"]
      c2 == last["p2"]
  IN
  /\ Quiescent("p1") /\ Quiescent("p2")
  /\ c1.outcome = "done" /\ c2.outcome = "done"
  /\ c1.event.id = c2.event.id
  /\ c1.event.meta.eventType = "add" /\ c2.event.meta.eventType = "add"
  /\ c1.got = "ok" /\ c2.got = "ok"
  /\ c1.currentEntity = c2.currentEntity
  /\ c1.wop = "put" /\ c2.wop = "put"
  /\ \E e \in {c1.handledEntity[1], c2.handledEntity[1]} :
       /\ StoreGet(store, c1.h, c1.event.id) = <<e>>
       /\ e.amount < c1.currentEntity[1].amount + c1.event.amount + c2.event.amount

\* The store calls of every cycle of p went to the handle the cycle holds:
\* its get answered from that store, its write landed there, and the stores
\* behind the other handles are as they were when the cycle started.
C25_OwnStore ==
  \A p \in MainPipes : \A c \in Observed(p) :
    /\ c.h \in Handles
    /\ Fetched(c) => c.currentEntity = StoreGet(c.pre, c.h, c.event.id)
    /\ c.outcome = "done" => Persisted(c)
    /\ \A h \in Handles \ {c.h} : store[h] = c.pre[h]

\* An arriving event is paired with the handle that is latest then, and a
\* cycle started from the buffer holds the handle of its pair, whatever
\* handle has been emitted since.
C25_Step ==
  \A p \in MainPipes :
    /\ (sent'[p] = sent[p] + 1 /\ latest[p] # NoHandle) =>
         \/ \E c \in inflight' \ inflight :
              c.p = p /\ c.n = sent'[p] /\ c.h = latest[p]
         \/ /\ Len(buffer'[p]) = Len(buffer[p]) + 1
            /\ buffer'[p][Len(buffer'[p])].n = sent'[p]
            /\ buffer'[p][Len(buffer'[p])].h = latest[p]
    /\ (buffer[p] # <<>> /\ buffer'[p] = Tail(buffer[p]) /\ sub'[p] = "active") =>
         \E c \in inflight' \ inflight :
           c.p = p /\ c.n = Head(buffer[p]).n /\ c.h = Head(buffer[p]).h

\* C25: the store handle of a cycle is the one that was latest when its
\* event arrived at the service, not when the cycle starts: the get and the
\* put/remove of an event that waited behind a cycle in flight go to the
\* handle of its arrival even when another handle was emitted meanwhile.
C25_HandleAtArrival == []C25_OwnStore /\ [][C25_Step]_vars

\* A cycle that started from the buffer when another handle had become the
\* latest one has returned: it fetched from the older store and its record
\* is there, while the store behind the newer handle has no record.
C25_Witness ==
  LET c == last["p1"] IN
  /\ c.outcome = "done"
  /\ c.lh # c.h
  /\ c.h = "h1"
  /\ c.got = "ok"
  /\ c.wop = "put"
  /\ StoreGet(store, "h1", c.event.id) = c.handledEntity
  /\ StoreGet(store, "h2", c.event.id) = <<>>
  /\ latest["p1"] = "h2"

\* The numbers in q, a sequence of event numbers, increase.
Increasing(q) == \A i, j \in 1..Len(q) : i < j => q[i] < q[j]

\* The cycles of p whose inner subscription is open.
LiveOf(p, fl) == {c \in fl : c.p = p /\ c.live}

\* While the output of p is not subscribed nothing of a run is left: no
\* listener, no buffered event, no cycle whose result would be emitted.  A
\* run processes in order, and every listener receives in order.
C21_Fresh ==
  \A p \in MainPipes :
    /\ sub[p] # "active" =>
         (listeners[p] = {} /\ buffer[p] = <<>> /\ LiveOf(p, inflight) = {})
    /\ Cardinality(LiveOf(p, inflight)) <= 1
    /\ \A c \in LiveOf(p, inflight) :
         \A i \in 1..Len(buffer[p]) : buffer[p][i].n > c.n
    /\ Increasing(out[p])
    /\ \A l \in Listeners : Increasing(recv[p][l])

\* A subscription that starts a run subscribes the source again (the handle
\* is taken anew and the output has a listener) and hands the subscriber
\* nothing; a cycle that starts afterwards is for an event newer than every
\* event the earlier runs settled or still have in flight; and an entity is
\* received only by the listeners of the run whose cycle settled it.
C21_Step ==
  \A p \in MainPipes :
    /\ (sub[p] # "active" /\ sub'[p] = "active") =>
         /\ recv' = recv /\ out' = out
         /\ listeners'[p] # {}
         /\ latest'[p] = handle
         /\ buffer'[p] = <<>> /\ LiveOf(p, inflight') = {}
    /\ \A c \in inflight' :
         (c.p = p /\ \A d \in CyclesOf(p) : d.n # c.n) =>
           /\ c.live /\ sub'[p] = "active"
           /\ \A i \in 1..Len(out[p]) : out[p][i] < c.n
           /\ \A d \in CyclesOf(p) : d.n < c.n
           /\ last[p].outcome # "none" => last[p].n < c.n
    /\ \A l \in Listeners :
         recv'[p][l] # recv[p][l] =>
           /\ l \in listeners[p]
           /\ \E c \in LiveOf(p, inflight) : recv'[p][l] = Append(recv[p][l], c.n)

\* C21: re-subscription yields a fresh run.  A listener that subscribes
\* after the run before has ended (by completion, by an error or by the
\* leaving of the last listener) makes the pipeline subscribe its source
\* again, gets a new in-order sequence of cycles, and receives no entity
\* settled by a cycle of an earlier run.
C21_FreshRun == []C21_Fresh /\ [][C21_Step]_vars

\* The first run ended with the error of its first event's cycle; a
\* listener subscribed again and received the entity of the second event,
\* the only one the output has emitted.
C21_Witness ==
  /\ err["p1"] # ""
  /\ sub["p1"] = "active"
  /\ last["p1"].outcome = "done" /\ last["p1"].n = 2
  /\ last["p1"].prev.outcome = "failed" /\ last["p1"].prev.n = 1
  /\ out["p1"] = <<2>>
  /\ \E l \in listeners["p1"] : recv["p1"][l] = <<2>>

\* The ids of the values of the sequence q.
IdsOf(q) == {q[i].id : i \in 1..Len(q)}

\* No two values of the sequence q have the same id.
DistinctIds(q) == \A i, j \in 1..Len(q) : i # j => q[i].id # q[j].id

\* The Map of a transform holds the ids it has let through, on whichever of
\* its streams and in whichever subscription: an id passes a transform once
\* in all.  The second transform lets through the first occurrences of its
\* own input alone.
C27_Instance ==
  /\ map = IdsOf(fout) \cup IdsOf(fout2)
  /\ IdsOf(fin) \cup IdsOf(fin2) \subseteq map
  /\ DistinctIds(fout \o fout2)
  /\ mapB = IdsOf(foutB)
  /\ foutB = FirstOccurrences(finB)
  /\ fmark <= Len(fin)

\* The Maps only grow; the end and the start of a subscription leave them as
\* they are; a value fed on either stream of the first transform passes
\* exactly when its id is not in that transform's Map, and touches nothing of
\* the second transform, and the other way round.
C27_Step ==
  /\ map \subseteq map' /\ mapB \subseteq mapB'
  /\ fsub' # fsub => (map' = map /\ mapB' = mapB)
  /\ Len(fin') > Len(fin) =>
       LET v == fin'[Len(fin')] IN
       /\ fout' = (IF v.id \in map THEN fout ELSE Append(fout, v))
       /\ mapB' = mapB /\ foutB' = foutB
  /\ Len(fin2') > Len(fin2) =>
       LET v == fin2'[Len(fin2')] IN
       /\ fout2' = (IF v.id \in map THEN fout2 ELSE Append(fout2, v))
       /\ mapB' = mapB /\ foutB' = foutB
  /\ Len(finB') > Len(finB) =>
       LET v == finB'[Len(finB')] IN
       /\ foutB' = (IF v.id \in mapB THEN foutB ELSE Append(foutB, v))
       /\ map' = map /\ fout' = fout /\ fout2' = fout2

\* C27: the seen-id set belongs to the transform, not to a subscription: it
\* only grows, no completion, error or unsubscription resets it, every
\* stream and subscription of the transform shares it, so an id that passed
\* once is dropped ever after, and two transforms made by separate calls do
\* not affect each other.
C27_SeenPerInstance == []C27_Instance /\ [][C27_Step]_vars

\* An id passed in the first subscription of the first stream; that
\* subscription ended and the stream was subscribed again; the id was then
\* dropped there and on the second stream of the transform, and passed the
\* second transform.
C27_Witness ==
  /\ fsub = "on"
  /\ fmark >= 1
  /\ Len(fin) > fmark
  /\ Len(fout) = 1
  /\ \E i \in 1..fmark : fin[i].id = "x" /\ fin[i] = fout[1]
  /\ fin[Len(fin)].id = "x"
  /\ Len(fin2) >= 1 /\ fin2[1].id = "x" /\ fout2 = <<>>
  /\ Len(foutB) >= 1 /\ foutB[1].id = "x"

\* The event numbers 1..k in order.
UpTo(k) == [i \in 1..k |-> i]

\* A cycle in flight can always take its next step: it waits for nothing
\* but the call it is suspended at.  A buffered event waits behind a cycle
\* of an earlier event of its own subscription.
C28_NoWait ==
  \A p \in MainPipes :
    /\ \A c \in CyclesOf(p) :
         /\ c.pc \in {"get", "side", "put", "remove"}
         /\ ENABLED (\/ GetDone(c, FALSE) \/ SideDone(c) \/ WriteDone(c, FALSE))
    /\ buffer[p] # <<>> =>
         \E c \in LiveOf(p, inflight) : c.n < Head(buffer[p]).n

\* The output of p is subscribed, the store handle has been emitted and the
\* source has emitted nothing yet.
C28_Ready(p) ==
  sub[p] = "active" /\ latest[p] # NoHandle /\ sent[p] = 0 /\ ~srcDone[p]

\* The output of p has ended with nothing left in flight or buffered: it
\* completed after emitting the entity of every event in arrival order, or
\* it errored with the rejection of the first cycle that failed, after the
\* entities of the events before it, and no later event was started.
C28_Ended(p) ==
  /\ CyclesOf(p) = {} /\ buffer[p] = <<>>
  /\ \/ /\ sub[p] = "completed"
        /\ srcDone[p]
        /\ out[p] = UpTo(sent[p])
        /\ started[p] = sent[p]
        /\ err[p] = ""
     \/ /\ sub[p] = "errored"
        /\ last[p].outcome = "failed"
        /\ err[p] = last[p].err
        /\ out[p] = UpTo(last[p].n - 1)
        /\ started[p] = last[p].n

\* C28: liveness of the service.  With the output subscribed, a store
\* handle emitted, a finite source and store and side handler calls that
\* settle, the cycle of every event that has started or is buffered comes
\* to its end, and the output ends: it completes after one entity per
\* event in arrival order, or errors at the first failing cycle.  A cycle
\* waits only for its own calls and for the cycles queued before it.
C28_Liveness ==
  /\ []C28_NoWait
  /\ \A p \in MainPipes : C28_Ready(p) ~> C28_Ended(p)
  /\ \A p \in MainPipes : \A n \in 1..(MaxEvents + 1) :
       (\/ \E c \in CyclesOf(p) : c.n = n
        \/ \E i \in 1..Len(buffer[p]) : buffer[p][i].n = n)
         ~> (/\ \A c \in CyclesOf(p) : c.n # n
             /\ \A i \in 1..Len(buffer[p]) : buffer[p][i].n # n)

\* The source emitted while cycles were in flight and completed; every
\* event's entity was emitted in arrival order and the output completed.
C28_Witness ==
  /\ sub["p1"] = "completed"
  /\ sent["p1"] >= 3
  /\ out["p1"] = UpTo(sent["p1"])
  /\ CyclesOf("p1") = {} /\ buffer["p1"] = <<>>
  /\ last["p1"].outcome = "done" /\ last["p1"].n = sent["p1"]

====
